---- MODULE Spec2Model ----
(***************************************************************************)
(* The agent coordinator of stackimpact-go (internal/agent.go): the        *)
(* process-wide started flag, the Start sequence, and the recording        *)
(* facade RecordSegment / RecordError, called by application goroutines.   *)
(***************************************************************************)
EXTENDS Integers, Sequences, FiniteSets, TLC

\* ------------------------------------------------------------------ bounds
NumAgents == 2      \* Agent values constructed by the application
NumThreads == 2     \* application goroutines calling into the agents
MaxCalls == 3       \* calls the application makes in one run
MaxUuidCalls == 10  \* uuid() calls after construction, in the runs of uuid() alone
MaxSec == 1         \* the clock runs from BootSec to this second

Agents == 1..NumAgents
Threads == 1..NumThreads

\* ------------------------------------------------------- values and inputs
\* Text is a sequence of one-character strings.
DigitChars == <<"0", "1", "2", "3", "4", "5", "6", "7", "8", "9">>

RECURSIVE FormatNat(_)
FormatNat(n) ==
    IF n < 10 THEN <<DigitChars[n + 1]>>
    ELSE FormatNat(n \div 10) \o <<DigitChars[(n % 10) + 1]>>

\* strconv.FormatInt(n, 10), which is also fmt's %v of an integer.
FormatInt(n) == IF n < 0 THEN <<"-">> \o FormatNat(-n) ELSE FormatNat(n)

\* sha1String: the digest, kept as an injective tag of its input text.
sha1String(s) == <<"sha1", s>>

\* The text uuid() digests: seconds, random integer and counter, in decimal.
uuidText(sec, rnd, id) == FormatInt(sec) \o FormatInt(rnd) \o FormatInt(id)

\* The clock reading and random draw of the uuid() call NewAgent makes.
BootSec == 0
BootRand == 0

\* rand.Intn(1000000000): the draws the model takes, below the limit.
RandLimit == 1000000000
RandValues == {r \in {5, 51} : r < RandLimit}

\* Payloads of RecordError (msg interface{}): an error value the application
\* holds (ref is its identity), an integer, a string, or nil.
MkError(ref, text) == [kind |-> "error", ref |-> ref, num |-> 0, text |-> text]
MkInt(n) == [kind |-> "int", ref |-> "", num |-> n, text |-> <<>>]
MkString(s) == [kind |-> "string", ref |-> "", num |-> 0, text |-> s]
MkNil == [kind |-> "nil", ref |-> "", num |-> 0, text |-> <<>>]

\* RecordError(group, msg, skipFrames) as the application calls it.
ErrInputs ==
    { [group |-> "db", msg |-> MkInt(42), skip |-> 0],
      [group |-> "db", msg |-> MkError("e1", <<"E", "O", "F">>), skip |-> 1],
      [group |-> "io", msg |-> MkInt(-7), skip |-> 2],
      [group |-> "io", msg |-> MkString(<<"4", "2">>), skip |-> 0],
      [group |-> "db", msg |-> MkNil, skip |-> 1] }

\* RecordSegment(path, duration) as the application calls it.
SegInputs ==
    { [path |-> <<"db", "query">>, duration |-> 120],
      [path |-> <<"query", "db">>, duration |-> 0] }

\* os.Hostname(): the name, or an error with whatever name was obtained.
HostResults ==
    { [name |-> "host1", err |-> ""],
      [name |-> "", err |-> "hostname: lookup failed"] }

\* Log lines.
WarnLine == "Agent configuration failed. Another agent has already been initialized."
StartedLine == "Agent started."
ErrorBanner == "Error"
RecoveredLine == "Recovered from panic in agent: %v"
LogLines ==
    {WarnLine, StartedLine, ErrorBanner, RecoveredLine}
        \cup {r.err : r \in HostResults}

\* ------------------------------------------------------------------- state
VARIABLES
    agentStarted,   \* the package variable agentStarted
    HostName,       \* Agent.HostName, per agent
    Debug,          \* Agent.Debug, per agent
    nextId,         \* Agent.nextId, per agent
    runId,          \* Agent.runId, per agent
    startCount,     \* per agent and collaborator: start() invocations received
    delivered,      \* the record calls the collaborators received, in order
    th,             \* per goroutine: the call it is in and what that call did
    calls,          \* calls the application has made
    startsBegun,    \* Start calls entered
    startsReturned, \* Start calls returned
    performed,      \* per agent: Start calls on it that went past the guard
    active,         \* the goroutines the application runs
    now,            \* the last reading of the clock (whole seconds)
    issued          \* per agent: the identifiers uuid() has returned

agentVars == <<HostName, Debug, nextId, runId>>
vars == <<agentStarted, HostName, Debug, nextId, runId, startCount, delivered,
          th, calls, startsBegun, startsReturned, performed, active, now,
          issued>>

\* The segment and error reporters started before the message queue.
StartOrder_Moved ==
    <<"configLoader", "segmentReporter", "errorReporter", "messageQueue",
      "processReporter", "cpuReporter", "allocationReporter", "blockReporter">>

\* The collaborators Start starts, in the order of the statements.
StartOrder ==
    <<"configLoader", "messageQueue", "processReporter", "cpuReporter",
      "allocationReporter", "blockReporter", "segmentReporter", "errorReporter">>

Collaborators == {StartOrder[i] : i \in 1..Len(StartOrder)}

NoArgs == [path |-> <<>>, duration |-> 0, group |-> "", msg |-> MkNil, skip |-> 0]

Idle ==
    [pc |-> "idle", op |-> "", self |-> 0, k |-> 0, trace |-> <<>>,
     segRecv |-> <<>>, errRecv |-> <<>>, outcome |-> "", args |-> NoArgs,
     after |-> FALSE, call |-> 0, hostErr |-> "", fault |-> FALSE, tmp |-> 0,
     result |-> <<>>]

\* The host names the application configures (HostName is "" by default).
ConfiguredHostNames == {"web1"}

\* NewAgent: the state each Agent is in when the constructor returns (nextId
\* is 1 after the uuid() call that gave runId), with HostName and Debug as
\* the application then sets them before any call.
ConstructedWith(hostNames, debugs, bootRands) ==
    /\ agentStarted = FALSE
    /\ HostName \in [Agents -> hostNames]
    /\ Debug \in [Agents -> debugs]
    /\ nextId = [a \in Agents |-> 1]
    /\ runId \in { [a \in Agents |-> sha1String(uuidText(BootSec, r[a], 1))] :
                     r \in [Agents -> bootRands] }
    /\ issued = [a \in Agents |-> {runId[a]}]
    /\ now = BootSec
    /\ startCount = [a \in Agents |-> [c \in Collaborators |-> 0]]
    /\ delivered = <<>>
    /\ th = [t \in Threads |-> Idle]
    /\ calls = 0
    /\ startsBegun = 0
    /\ startsReturned = 0
    /\ performed = [a \in Agents |-> 0]

Constructed == ConstructedWith({""} \cup ConfiguredHostNames, BOOLEAN, {BootRand})

Init == Constructed /\ active = Threads
InitSeq == Constructed /\ active = {1}

\* ------------------------------------------------------------ diagnostics
\* A log that ignores Debug.
log_Always(a, line) == <<line>>

\* Agent.log: the line, when the agent's Debug is set.
log(a, line) == IF Debug[a] THEN <<line>> ELSE <<>>

\* An error log that ignores Debug.
error_Always(a, err) == <<ErrorBanner, err>>

\* Agent.error: a banner line and the error's text, when Debug is set.
error(a, err) == IF Debug[a] THEN <<ErrorBanner, err>> ELSE <<>>

\* ------------------------------------------------------------------- Start
\* A guard that never sees the flag set.
AlreadyStarted_Never == FALSE

\* if agentStarted { ... return }
AlreadyStarted == agentStarted

\* A Start that leaves the flag clear.
FlagAfterStart_Clear == FALSE

\* agentStarted = true
FlagAfterStart == TRUE

\* Start, entered by goroutine t on agent a: the guard on the process-wide
\* flag. With the flag set the call logs the warning and returns.
Start_Guard(t, a) ==
    /\ th[t].pc = "idle"
    /\ calls < MaxCalls
    /\ calls' = calls + 1
    /\ startsBegun' = startsBegun + 1
    /\ IF AlreadyStarted
       THEN /\ th' = [th EXCEPT ![t] =
                        [Idle EXCEPT !.pc = "returned", !.op = "Start",
                                     !.self = a, !.trace = log(a, WarnLine),
                                     !.outcome = "ok", !.call = calls + 1,
                                     !.after = (startsReturned > 0)]]
            /\ UNCHANGED performed
       ELSE /\ th' = [th EXCEPT ![t] =
                        [Idle EXCEPT !.pc = "set", !.op = "Start", !.self = a,
                                     !.call = calls + 1,
                                     !.after = (startsReturned > 0)]]
            /\ performed' = [performed EXCEPT ![a] = @ + 1]
    /\ UNCHANGED <<agentStarted, agentVars, startCount, delivered,
                   startsReturned, active, now, issued>>

\* agentStarted = true, a step of its own after the guard's read.
Start_SetFlag(t) ==
    /\ th[t].pc = "set"
    /\ agentStarted' = FlagAfterStart
    /\ th' = [th EXCEPT ![t].pc = "host"]
    /\ UNCHANGED <<agentVars, startCount, delivered, calls, startsBegun,
                   startsReturned, performed, active, now, issued>>

\* A Start that resolves the host name whatever is configured.
HostNameUnset_Always(a) == TRUE

\* if a.HostName == ""
HostNameUnset(a) == HostName[a] = ""

\* if a.HostName == "" { hostName, err := os.Hostname(); ... }
Start_HostName(t) ==
    /\ th[t].pc = "host"
    /\ LET a == th[t].self IN
       IF HostNameUnset(a)
       THEN \E r \in HostResults :
              /\ HostName' = [HostName EXCEPT ![a] = r.name]
              /\ th' = [th EXCEPT
                          ![t].pc = "collab",
                          ![t].hostErr = r.err,
                          ![t].trace = @ \o <<"os.Hostname">> \o
                                       (IF r.err # "" THEN error(a, r.err)
                                        ELSE <<>>)]
       ELSE /\ th' = [th EXCEPT ![t].pc = "collab"]
            /\ UNCHANGED HostName
    /\ UNCHANGED <<agentStarted, Debug, nextId, runId, startCount, delivered,
                   calls, startsBegun, startsReturned, performed, active, now, issued>>

\* a.configLoader.start() ... a.errorReporter.start(): the next one.
Start_Collaborator(t) ==
    /\ th[t].pc = "collab"
    /\ LET a == th[t].self
           c == StartOrder[th[t].k + 1]
       IN /\ startCount' = [startCount EXCEPT ![a][c] = @ + 1]
          /\ th' = [th EXCEPT
                      ![t].k = @ + 1,
                      ![t].trace = Append(@, c),
                      ![t].pc = IF th[t].k + 1 = Len(StartOrder)
                                THEN "log" ELSE "collab"]
    /\ UNCHANGED <<agentStarted, agentVars, delivered, calls, startsBegun,
                   startsReturned, performed, active, now, issued>>

\* a.log("Agent started."); return
Start_Log(t) ==
    /\ th[t].pc = "log"
    /\ th' = [th EXCEPT ![t].pc = "returned", ![t].outcome = "ok",
                        ![t].trace = @ \o log(th[t].self, StartedLine)]
    /\ UNCHANGED <<agentStarted, agentVars, startCount, delivered, calls,
                   startsBegun, startsReturned, performed, active, now, issued>>

\* --------------------------------------------------------- recording facade
\* A facade with no guard.
NotStarted_Never == FALSE

\* if !agentStarted { return }
NotStarted == ~agentStarted

\* A forward that loses the first label of the path.
SegmentCall_Tail(path, duration) == [path |-> Tail(path), duration |-> duration]

\* a.segmentReporter.recordSegment(path, duration): what the collaborator
\* is called with.
SegmentCall(path, duration) == [path |-> path, duration |-> duration]

\* The switch on msg's type: an error is kept, anything else is formatted
\* with %v into a new error.
FormatV(msg) ==
    CASE msg.kind = "int" -> FormatInt(msg.num)
      [] msg.kind = "string" -> msg.text
      [] msg.kind = "nil" -> <<"<", "n", "i", "l", ">">>
      [] OTHER -> msg.text

\* A switch with no error case: every payload is formatted into a new error.
NormalizeError_AlwaysFormat(msg) == MkError("new", FormatV(msg))

NormalizeError(msg) ==
    IF msg.kind = "error" THEN msg ELSE MkError("new", FormatV(msg))

\* A forward of skipFrames as given.
ErrorCall_NoIncrement(group, msg, skipFrames) ==
    [group |-> group, err |-> NormalizeError(msg), skipFrames |-> skipFrames]

\* a.errorReporter.recordError(group, err, skipFrames+1)
ErrorCall(group, msg, skipFrames) ==
    [group |-> group, err |-> NormalizeError(msg), skipFrames |-> skipFrames + 1]

\* How a facade call ends when the collaborator call it made returned
\* (fault = FALSE) or panicked (fault = TRUE): neither method defers a
\* recover, so the panic unwinds into the caller.
FacadeOutcome(fault) == IF fault THEN "panic" ELSE "ok"

\* The collaborator's record of one received call.
Delivery(a, kind, n) == [agent |-> a, kind |-> kind, call |-> n]

RecordSegment(t, a, in, fault) ==
    /\ th[t].pc = "idle"
    /\ calls < MaxCalls
    /\ calls' = calls + 1
    /\ LET base == [Idle EXCEPT !.pc = "returned", !.op = "RecordSegment",
                                !.self = a, !.call = calls + 1,
                                !.after = (startsReturned > 0),
                                !.args = [NoArgs EXCEPT !.path = in.path,
                                                        !.duration = in.duration]]
       IN IF NotStarted
          THEN /\ th' = [th EXCEPT ![t] = [base EXCEPT !.outcome = "ok"]]
               /\ UNCHANGED delivered
          ELSE /\ th' = [th EXCEPT ![t] =
                           [base EXCEPT
                              !.segRecv = <<SegmentCall(in.path, in.duration)>>,
                              !.outcome = FacadeOutcome(fault)]]
               /\ delivered' = Append(delivered, Delivery(a, "segment", calls + 1))
    /\ UNCHANGED <<agentStarted, agentVars, startCount, startsBegun,
                   startsReturned, performed, active, now, issued>>

RecordError(t, a, in, fault) ==
    /\ th[t].pc = "idle"
    /\ calls < MaxCalls
    /\ calls' = calls + 1
    /\ LET base == [Idle EXCEPT !.pc = "returned", !.op = "RecordError",
                                !.self = a, !.call = calls + 1,
                                !.after = (startsReturned > 0),
                                !.args = [NoArgs EXCEPT !.group = in.group,
                                                        !.msg = in.msg,
                                                        !.skip = in.skip]]
       IN IF NotStarted
          THEN /\ th' = [th EXCEPT ![t] = [base EXCEPT !.outcome = "ok"]]
               /\ UNCHANGED delivered
          ELSE /\ th' = [th EXCEPT ![t] =
                           [base EXCEPT
                              !.errRecv = <<ErrorCall(in.group, in.msg, in.skip)>>,
                              !.outcome = FacadeOutcome(fault)]]
               /\ delivered' = Append(delivered, Delivery(a, "error", calls + 1))
    /\ UNCHANGED <<agentStarted, agentVars, startCount, startsBegun,
                   startsReturned, performed, active, now, issued>>

\* The call is over: the goroutine is back in application code.
Return(t) ==
    /\ th[t].pc = "returned"
    /\ th' = [th EXCEPT ![t] = Idle]
    /\ startsReturned' = IF th[t].op = "Start" THEN startsReturned + 1
                         ELSE startsReturned
    /\ UNCHANGED <<agentStarted, agentVars, startCount, delivered, calls,
                   startsBegun, performed, active, now, issued>>

\* ---------------------------------------------------------------- uuid
\* A uuid() that also stores the identifier as the run identifier.
RunIdAfterUuid_Assign(a, id) == id

\* uuid() returns the identifier; the only field it assigns is nextId.
RunIdAfterUuid(a, id) == runId[a]

\* a.nextId++, the read: the goroutine holds the value it read.
Uuid_Read(t, a, bound) ==
    /\ th[t].pc = "idle"
    /\ calls < bound
    /\ calls' = calls + 1
    /\ th' = [th EXCEPT ![t] =
                 [Idle EXCEPT !.pc = "uuid_write", !.op = "uuid", !.self = a,
                              !.tmp = nextId[a], !.call = calls + 1,
                              !.after = (startsReturned > 0)]]
    /\ UNCHANGED <<agentStarted, agentVars, startCount, delivered, startsBegun,
                   startsReturned, performed, active, now, issued>>

\* a.nextId++, the write of the value read plus one.
Uuid_Write(t) ==
    /\ th[t].pc = "uuid_write"
    /\ nextId' = [nextId EXCEPT ![th[t].self] = th[t].tmp + 1]
    /\ th' = [th EXCEPT ![t].pc = "uuid_text"]
    /\ UNCHANGED <<agentStarted, HostName, Debug, runId, startCount, delivered,
                   calls, startsBegun, startsReturned, performed, active, now,
                   issued>>

\* The text of seconds, random draw and a.nextId (read again), digested and
\* returned. The clock reads sec, not before its last reading.
Uuid_Digest(t, sec, rnd) ==
    /\ th[t].pc = "uuid_text"
    /\ sec >= now
    /\ now' = sec
    /\ LET a == th[t].self
           id == sha1String(uuidText(sec, rnd, nextId[a]))
       IN /\ th' = [th EXCEPT ![t].pc = "returned", ![t].outcome = "ok",
                              ![t].result = id]
          /\ issued' = [issued EXCEPT ![a] = @ \cup {id}]
          /\ runId' = [runId EXCEPT ![a] = RunIdAfterUuid(a, id)]
    /\ UNCHANGED <<agentStarted, HostName, Debug, nextId, startCount, delivered,
                   calls, startsBegun, startsReturned, performed, active>>

\* ------------------------------------------------------- recovery wrapper
\* A wrapper that logs and lets the panic go on.
recoverAndLog_NoRecover(a, panicking) ==
    [outcome |-> IF panicking THEN "panic" ELSE "ok",
     lines |-> IF panicking THEN log(a, RecoveredLine) ELSE <<>>]

\* recoverAndLog, run as the deferred call of an operation that panicked or
\* not: recover() stops the panic, and a recovered value is logged.
recoverAndLog(a, panicking) ==
    [outcome |-> "ok",
     lines |-> IF panicking THEN log(a, RecoveredLine) ELSE <<>>]

\* An operation of the agent's internals that starts with
\* defer a.recoverAndLog() and whose body panics (fault) or returns.
GuardedOp(t, a, fault) ==
    /\ th[t].pc = "idle"
    /\ calls < MaxCalls
    /\ calls' = calls + 1
    /\ LET r == recoverAndLog(a, fault)
       IN th' = [th EXCEPT ![t] =
                    [Idle EXCEPT !.pc = "returned", !.op = "guarded",
                                 !.self = a, !.fault = fault,
                                 !.call = calls + 1,
                                 !.after = (startsReturned > 0),
                                 !.outcome = r.outcome, !.trace = r.lines]]
    /\ UNCHANGED <<agentStarted, agentVars, startCount, delivered, startsBegun,
                   startsReturned, performed, active, now, issued>>

Next ==
    \/ \E t \in active, a \in Agents : Start_Guard(t, a)
    \/ \E t \in active : Start_SetFlag(t)
    \/ \E t \in active : Start_HostName(t)
    \/ \E t \in active : Start_Collaborator(t)
    \/ \E t \in active : Start_Log(t)
    \/ \E t \in active, a \in Agents, in \in SegInputs, fault \in BOOLEAN :
         RecordSegment(t, a, in, fault)
    \/ \E t \in active, a \in Agents, in \in ErrInputs, fault \in BOOLEAN :
         RecordError(t, a, in, fault)
    \/ \E t \in active : Return(t)

\* Goroutines calling concurrently.
Spec == Init /\ [][Next]_vars

\* One goroutine: every call returns before the next is made.
SpecSeq == InitSeq /\ [][Next]_vars

\* uuid() calls alone, at most bound of them.
NextUuid(bound) ==
    \/ \E t \in active, a \in Agents : Uuid_Read(t, a, bound)
    \/ \E t \in active : Uuid_Write(t)
    \/ \E t \in active, sec \in BootSec..MaxSec, rnd \in RandValues :
         Uuid_Digest(t, sec, rnd)
    \/ \E t \in active : Return(t)

\* The application's calls together with guarded operations.
NextDiag ==
    \/ Next
    \/ \E t \in active, a \in Agents, fault \in BOOLEAN : GuardedOp(t, a, fault)

\* The application's calls together with guarded operations and uuid().
NextAll ==
    \/ NextDiag
    \/ \E t \in active, a \in Agents : Uuid_Read(t, a, MaxCalls)
    \/ \E t \in active : Uuid_Write(t)
    \/ \E t \in active, sec \in BootSec..MaxSec, rnd \in RandValues :
         Uuid_Digest(t, sec, rnd)

\* Agents as constructed (HostName "", Debug false), any draw at construction.
InitUuid == ConstructedWith({""}, {FALSE}, RandValues) /\ active = {1}
InitUuidRace == ConstructedWith({""}, {FALSE}, {BootRand}) /\ active = Threads
InitAll == ConstructedWith({""}, {FALSE}, {BootRand}) /\ active = {1}

\* One goroutine calling uuid() again and again.
SpecUuid == InitUuid /\ [][NextUuid(MaxUuidCalls)]_vars

\* Goroutines calling uuid() concurrently.
SpecUuidRace == InitUuidRace /\ [][NextUuid(MaxCalls)]_vars

\* One goroutine making the application's calls and guarded operations.
SpecDiag == InitSeq /\ [][NextDiag]_vars

\* One goroutine making every kind of call, one after another, on agents
\* whose HostName and Debug are left as constructed.
SpecAll == InitAll /\ [][NextAll]_vars

\* ================================================================== claims
Returned(t, op) == th[t].pc = "returned" /\ th[t].op = op

RecordOps == {"RecordSegment", "RecordError"}

\* The entries of delivered that call n produced.
DeliveriesOf(n) == {i \in DOMAIN delivered : delivered[i].call = n}

\* Start calls that went past the guard, over all agents.
RECURSIVE SumPerformed(_)
SumPerformed(n) == IF n = 0 THEN 0 ELSE performed[n] + SumPerformed(n - 1)
StartupRuns == SumPerformed(NumAgents)

\* C1: with calls made one after another, every Start call after the first
\* (on the same agent or another) is a no-op: it never gets past the guard,
\* invokes no collaborator start, and emits the warning line exactly once when
\* the calling agent's Debug is set and nothing otherwise.
C1_RepeatedStartNoOp ==
    \A t \in Threads :
        (th[t].op = "Start" /\ startsBegun > 1) =>
            /\ th[t].pc = "returned"
            /\ th[t].k = 0
            /\ th[t].trace = (IF Debug[th[t].self] THEN <<WarnLine>> ELSE <<>>)
            /\ \A a \in Agents, c \in Collaborators : startCount[a][c] <= 1

C1_Witness ==
    \E t \in Threads :
        /\ Returned(t, "Start")
        /\ startsBegun = 3
        /\ Debug[th[t].self]
        /\ performed[th[t].self] = 0
        /\ th[t].trace = <<WarnLine>>

\* C2: at most one Start call executes the startup sequence, under every
\* interleaving of concurrent Start calls, so that no collaborator's start is
\* run by more than one Start call.
C2_AtMostOneStartup ==
    /\ StartupRuns <= 1
    /\ \A a \in Agents, c \in Collaborators : startCount[a][c] <= 1

\* C3: once the first Start call has returned, each of the eight
\* collaborators of its agent has had start invoked exactly once, and no later
\* Start, RecordSegment or RecordError call changes any of those counts.
C3_StartedExactlyOnce ==
    startsReturned >= 1 =>
        /\ StartupRuns = 1
        /\ \A a \in Agents :
              performed[a] = 1 =>
                  \A c \in { "configLoader", "messageQueue", "processReporter",
                             "cpuReporter", "allocationReporter", "blockReporter",
                             "segmentReporter", "errorReporter" } :
                      startCount[a][c] = 1

C3_Witness ==
    /\ startsReturned = 2
    /\ delivered # <<>>
    /\ \A t \in Threads : th[t].pc = "idle"
    /\ \E a \in Agents : \A c \in Collaborators : startCount[a][c] = 1

\* The order the specification fixes for the collaborator starts.
FixedOrder ==
    <<"configLoader", "messageQueue", "processReporter", "cpuReporter",
      "allocationReporter", "blockReporter", "segmentReporter", "errorReporter">>

IsCollaboratorEvent(e) == \E i \in 1..Len(FixedOrder) : FixedOrder[i] = e

\* C4: in a Start call that performs startup the collaborator starts happen
\* strictly in the fixed order, one after the other; host-name resolution
\* comes before all of them and the "Agent started." line after the last.
C4_StartupOrder ==
    \A t \in Threads :
        th[t].op = "Start" =>
            LET tr == th[t].trace
                cs == SelectSeq(tr, IsCollaboratorEvent)
            IN /\ Len(cs) <= Len(FixedOrder)
               /\ cs = SubSeq(FixedOrder, 1, Len(cs))
               /\ \A i, j \in DOMAIN tr :
                     (tr[i] = "os.Hostname" /\ IsCollaboratorEvent(tr[j])) => i < j
               /\ \A i \in DOMAIN tr :
                     tr[i] = StartedLine =>
                         /\ i = Len(tr)
                         /\ SelectSeq(SubSeq(tr, 1, i - 1), IsCollaboratorEvent)
                              = FixedOrder
               /\ (th[t].pc = "returned" /\ Len(cs) > 0) => cs = FixedOrder

C4_Witness ==
    \E t \in Threads :
        /\ Returned(t, "Start")
        /\ th[t].trace = <<"os.Hostname">> \o FixedOrder \o <<StartedLine>>

\* C5: while no Start call has been made, RecordSegment and RecordError
\* calls, whatever their arguments, delegate to no collaborator and change no
\* agent state.
C5_NoDelegationBeforeStart ==
    [][ startsBegun' = 0 =>
          /\ delivered' = <<>>
          /\ \A t \in Threads : th'[t].segRecv = <<>> /\ th'[t].errRecv = <<>>
          /\ agentVars' = agentVars
          /\ startCount' = startCount
          /\ agentStarted' = agentStarted ]_vars

C5_Witness ==
    /\ startsBegun = 0
    /\ calls >= 2
    /\ \E t \in Threads :
          /\ Returned(t, "RecordError")
          /\ th[t].args.skip = 2
          /\ th[t].call >= 2
          /\ th[t].errRecv = <<>>

\* C6: the facade gates on the state of the agent it is called on: on an
\* agent whose own Start has not performed startup, RecordSegment and
\* RecordError are no-ops.
C6_GatesOnOwnAgent ==
    \A t \in Threads :
        (th[t].pc = "returned" /\ th[t].op \in RecordOps
           /\ performed[th[t].self] = 0) =>
            /\ th[t].segRecv = <<>>
            /\ th[t].errRecv = <<>>
            /\ DeliveriesOf(th[t].call) = {}

\* C7: RecordSegment and RecordError never fail visibly: when the
\* collaborator call they make panics, the panic is suppressed and the call
\* returns normally.
C7_FacadeNeverPanics ==
    \A t \in Threads :
        (th[t].pc = "returned" /\ th[t].op \in RecordOps) => th[t].outcome = "ok"

\* C8: for every RecordError(group, payload, skipFrames) made after Start,
\* the error collaborator receives exactly one recordError call, with the
\* caller's group and with skipFrames one more than the caller's.
C8_SkipFramesPlusOne ==
    \A t \in Threads :
        (Returned(t, "RecordError") /\ th[t].after) =>
            /\ Len(th[t].errRecv) = 1
            /\ th[t].segRecv = <<>>
            /\ th[t].errRecv[1].group = th[t].args.group
            /\ th[t].errRecv[1].skipFrames = th[t].args.skip + 1
            /\ Cardinality(DeliveriesOf(th[t].call)) = 1
            /\ \A i \in DeliveriesOf(th[t].call) :
                  delivered[i].kind = "error" /\ delivered[i].agent = th[t].self

C8_Witness ==
    \E t \in Threads :
        /\ Returned(t, "RecordError")
        /\ th[t].after
        /\ th[t].args.skip = 2
        /\ th[t].args.group = "io"
        /\ th[t].errRecv[1].skipFrames = 3
        /\ th[t].errRecv[1].group = "io"

\* The value a decimal text denotes.
DigitValue(ch) == CHOOSE d \in 0..9 : DigitChars[d + 1] = ch

RECURSIVE ParseNat(_)
ParseNat(txt) ==
    IF Len(txt) = 0 THEN 0
    ELSE 10 * ParseNat(SubSeq(txt, 1, Len(txt) - 1)) + DigitValue(txt[Len(txt)])

IsDigits(txt) ==
    /\ Len(txt) >= 1
    /\ \A i \in DOMAIN txt : \E d \in 0..9 : DigitChars[d + 1] = txt[i]
    /\ Len(txt) > 1 => txt[1] # "0"

\* txt is the decimal rendering of the integer n.
IsDecimalOf(txt, n) ==
    IF n < 0
    THEN /\ Len(txt) >= 2
         /\ txt[1] = "-"
         /\ IsDigits(Tail(txt))
         /\ ParseNat(Tail(txt)) = -n
    ELSE IsDigits(txt) /\ ParseNat(txt) = n

\* txt is the default textual rendering of payload m.
IsRenderingOf(txt, m) ==
    CASE m.kind = "int" -> IsDecimalOf(txt, m.num)
      [] m.kind = "string" -> txt = m.text
      [] m.kind = "nil" -> txt = <<"<", "n", "i", "l", ">">>
      [] OTHER -> FALSE

\* C9: for every RecordError made after Start, the error forwarded is the
\* payload itself when the payload is an error value, and otherwise a newly
\* built error whose text is the payload's default rendering (42 gives "42").
C9_ErrorNormalized ==
    \A t \in Threads :
        (Returned(t, "RecordError") /\ th[t].after) =>
            /\ Len(th[t].errRecv) = 1
            /\ LET m == th[t].args.msg
                   e == th[t].errRecv[1].err
               IN /\ e.kind = "error"
                  /\ m.kind = "error" => e = m
                  /\ m.kind # "error" => e.ref = "new" /\ IsRenderingOf(e.text, m)
                  /\ m = MkInt(42) => e.text = <<"4", "2">>

C9_Witness ==
    /\ \E t \in Threads :
          /\ Returned(t, "RecordError")
          /\ th[t].after
          /\ th[t].args.msg = MkInt(42)
          /\ th[t].errRecv[1].err = MkError("new", <<"4", "2">>)
    /\ \E i \in DOMAIN delivered : delivered[i].kind = "error"

\* C10: for every RecordSegment(path, duration) made after Start has
\* returned, the segment collaborator receives exactly one recordSegment call
\* with the same labels in the same order and the same duration, and the
\* collaborators receive the calls in the order the application made them.
C10_SegmentForwarded ==
    /\ \A t \in Threads :
          (Returned(t, "RecordSegment") /\ th[t].after) =>
              /\ th[t].segRecv = <<[path |-> th[t].args.path,
                                    duration |-> th[t].args.duration]>>
              /\ th[t].errRecv = <<>>
              /\ Cardinality(DeliveriesOf(th[t].call)) = 1
              /\ \A i \in DeliveriesOf(th[t].call) :
                    delivered[i].kind = "segment" /\ delivered[i].agent = th[t].self
    /\ \A i, j \in DOMAIN delivered :
          i < j => delivered[i].call < delivered[j].call

C10_Witness ==
    /\ Len(delivered) = 2
    /\ delivered[1].kind = "segment"
    /\ delivered[2].kind = "segment"
    /\ delivered[1].agent = delivered[2].agent
    /\ \E t \in Threads :
          /\ Returned(t, "RecordSegment")
          /\ th[t].call = 3
          /\ th[t].segRecv = <<[path |-> <<"db", "query">>, duration |-> 120]>>

\* C11: a HostName the application set to a non-empty value before Start
\* is still there after any sequence of Start calls: the auto-detection of
\* Start never overwrites it.
C11_ConfiguredHostNameKept ==
    [][ \A a \in Agents :
          HostName[a] \in ConfiguredHostNames => HostName'[a] = HostName[a] ]_vars

C11_Witness ==
    \E t \in Threads :
        /\ Returned(t, "Start")
        /\ th[t].k = 8
        /\ HostName[th[t].self] = "web1"
        /\ ~Debug[th[t].self]
        /\ th[t].trace = FixedOrder

\* C12: N uuid() calls made one after another on one agent give N pairwise
\* distinct identifiers, whatever the (non-decreasing) clock readings and the
\* random draws, the digest being injective on the text digested.
C12_UuidDistinct ==
    \A a \in Agents :
        Cardinality(issued[a]) =
            nextId[a] - (IF \E t \in Threads :
                               th[t].pc = "uuid_text" /\ th[t].self = a
                         THEN 1 ELSE 0)

\* C13: a panic raised inside an operation guarded by recoverAndLog is
\* suppressed: the operation returns to its caller, and a diagnostic is
\* logged only if Debug is set; with no panic the wrapper does nothing.
C13_GuardedFaultSuppressed ==
    \A t \in Threads :
        Returned(t, "guarded") =>
            /\ th[t].outcome = "ok"
            /\ th[t].trace = (IF th[t].fault /\ Debug[th[t].self]
                              THEN <<RecoveredLine>> ELSE <<>>)

C13_Witness ==
    \E t \in Threads :
        /\ Returned(t, "guarded")
        /\ th[t].fault
        /\ Debug[th[t].self]
        /\ th[t].outcome = "ok"
        /\ th[t].trace = <<RecoveredLine>>

\* C14: with HostName empty and host-name resolution failing in the first
\* Start, startup goes on: HostName takes the value the resolution returned,
\* the eight collaborators are started in order, the process ends started,
\* and the error is logged only when Debug is set.
C14_HostNameFailureTolerated ==
    \A t \in Threads :
        (th[t].op = "Start" /\ th[t].hostErr # "") =>
            LET a == th[t].self
                errLines == SelectSeq(th[t].trace,
                                LAMBDA e : e \in {ErrorBanner, th[t].hostErr})
            IN /\ th[t].pc \in {"collab", "log", "returned"}
               /\ agentStarted
               /\ \E r \in HostResults : r.err = th[t].hostErr /\ HostName[a] = r.name
               /\ errLines = (IF Debug[a] THEN <<ErrorBanner, th[t].hostErr>>
                              ELSE <<>>)
               /\ th[t].pc = "returned" =>
                     /\ th[t].outcome = "ok"
                     /\ SelectSeq(th[t].trace, IsCollaboratorEvent) = FixedOrder
                     /\ \A i \in 1..Len(FixedOrder) :
                           startCount[a][FixedOrder[i]] = 1

C14_Witness ==
    \E t \in Threads :
        /\ Returned(t, "Start")
        /\ th[t].hostErr # ""
        /\ ~Debug[th[t].self]
        /\ HostName[th[t].self] = ""
        /\ th[t].trace = <<"os.Hostname">> \o FixedOrder

\* C15: a Start call that finds the process-wide flag set returns without
\* side effects: the flag, the agent's HostName (even when empty) and other
\* fields, nextId, runId and the collaborators stay as they were; its only
\* effect is the warning line, when Debug is set.
C15_GuardedStartNoSideEffects ==
    [][ \A t \in Threads :
          (th[t].pc = "idle" /\ th'[t].op = "Start" /\ agentStarted) =>
              /\ agentStarted'
              /\ agentVars' = agentVars
              /\ startCount' = startCount
              /\ delivered' = delivered
              /\ issued' = issued
              /\ th'[t].pc = "returned"
              /\ th'[t].k = 0
              /\ th'[t].trace = (IF Debug[th'[t].self] THEN <<WarnLine>>
                                 ELSE <<>>) ]_vars

C15_Witness ==
    \E t \in Threads :
        /\ Returned(t, "Start")
        /\ th[t].k = 0
        /\ agentStarted
        /\ performed[th[t].self] = 0
        /\ HostName[th[t].self] = ""
        /\ ~Debug[th[t].self]
        /\ th[t].trace = <<>>

\* C16: nextId only increases: in every execution, interleavings of
\* concurrent uuid() calls on one agent included, nextId never decreases from
\* one state to the next.
C16_NextIdOnlyIncreases ==
    [][ \A a \in Agents : nextId'[a] >= nextId[a] ]_vars

\* C17: runId is assigned once, at construction, and never changes: no
\* Start, RecordSegment, RecordError or further uuid() call modifies it.
C17_RunIdNeverChanges ==
    [][ /\ runId' = runId
        /\ \A a \in Agents : runId[a] \in issued[a] ]_vars

C17_Witness ==
    \E t \in Threads :
        /\ Returned(t, "uuid")
        /\ startsReturned >= 1
        /\ nextId[th[t].self] = 2
        /\ th[t].result # runId[th[t].self]
        /\ th[t].result \in issued[th[t].self]

IsLogLine(e) ==
    e \in { "Agent configuration failed. Another agent has already been initialized.",
            "Agent started.", "Error", "hostname: lookup failed",
            "Recovered from panic in agent: %v" }

IsStartedLine(e) == e = "Agent started."

\* C18: the diagnostic sinks are debug-gated: while an agent's Debug is
\* false none of its operations emits a log line; with Debug true a first
\* Start that succeeds emits "Agent started." exactly once.
C18_DebugGated ==
    \A t \in Threads :
        th[t].self \in Agents =>
            /\ ~Debug[th[t].self] => SelectSeq(th[t].trace, IsLogLine) = <<>>
            /\ (Debug[th[t].self] /\ Returned(t, "Start") /\ th[t].k = 8) =>
                  Len(SelectSeq(th[t].trace, IsStartedLine)) = 1

C18_Witness ==
    /\ \E t \in Threads :
          /\ Returned(t, "Start")
          /\ Debug[th[t].self]
          /\ th[t].trace = FixedOrder \o <<StartedLine>>
    /\ \E a \in Agents : ~Debug[a]

\* C19: a collaborator is never delegated to before it has been started:
\* every recordSegment (recordError) the reporter of an agent receives while
\* a Start on that agent runs concurrently comes after the reporter's start.
C19_DelegatedAfterStart ==
    \A i \in DOMAIN delivered :
        LET d == delivered[i]
            reporter == IF d.kind = "segment" THEN "segmentReporter"
                        ELSE "errorReporter"
        IN performed[d.agent] >= 1 => startCount[d.agent][reporter] >= 1

====
